---- MODULE Spec2Model ----
(***************************************************************************)
(* Model of the position-hold control loop of src/control_node.py          *)
(* (class control, method control_process).                                *)
(*                                                                         *)
(* Fixed point: lengths in mm, speeds in mm/s, times in ms, commands       *)
(* (throttle, roll, pitch, thrust) in thousandths of a command unit,       *)
(* battery voltage in hundredths of a volt, angles in degrees.             *)
(* A Python name that is None or not yet bound is the empty sequence <<>>, *)
(* a bound value v is <<v>>.                                               *)
(* One Tick is one iteration of the "while True: try: ... except" loop.    *)
(* What a poll()/recv() of an inbound pipe finds is chosen by the          *)
(* environment in each iteration; the results of the filterpy Kalman       *)
(* filters are over-approximated on small grids.                           *)
(***************************************************************************)
EXTENDS Integers, Sequences, FiniteSets, TLC

\* ------------------------------------------------------------ fixed point
Milli == 10 * 100

None == <<>>
Some(v) == <<v>>
Bound(o) == o # <<>>
Val(o) == o[1]
\* Python truthiness of a value that is None or a number
Truthy(o) == o # <<>> /\ o[1] # 0

Abs(x) == IF x < 0 THEN -x ELSE x
\* int(a / b): division truncated toward zero
TruncDiv(a, b) ==
    IF (a >= 0) = (b > 0) THEN Abs(a) \div Abs(b) ELSE -(Abs(a) \div Abs(b))

\* ------------------------------------------------ parameters of __init__
ABS_MAX_VALUE_ROLL == 100
ABS_MAX_VALUE_PITCH == 150
ABS_MAX_VALUE_THROTTLE == 150
TAKEOFF_ALTITUDE == 1
\* the fractions of the takeoff profile the model keeps (of the 20 of line 24)
ProfileLen == 3
PX_GAIN == 100
DX_GAIN == 22
PY_GAIN == 100
DY_GAIN == 22
PZ_GAIN == 60
DZ_GAIN == 30
\* the I gains 0.005, 0.005 and 0.05 as fractions
IX_GAIN == <<5, 1000>>
IY_GAIN == <<5, 1000>>
IZ_GAIN == <<5, 100>>
\* CMDS['throttle'] at the start of every iteration
IDLE_THROTTLE == -30
\* the 3 s of "abs(dt<3)", in ms
DT_LIMIT == 3000
\* the fixed decrement of the landing throttle
LANDING_DECREMENT == 50
ROLL_DIVISOR == 8
PITCH_DIVISOR == 9

\* TAKEOFF_LIST[t] = 1 - 1/exp(t) for t = 0..19, in thousandths (floor)
TakeoffCurve ==
    <<0, 632, 864, 950, 981, 993, 997, 999, 999, 999,
      999, 999, 999, 999, 999, 999, 999, 999, 999, 999>>
InitTAKEOFF_LIST == [t \in 1..ProfileLen |-> TakeoffCurve[t]]

\* ------------------------------------------------------------ environment
\* What the environment may present in one iteration:
\*   mode, imu, tof, flow: what poll()/recv() finds on each inbound pipe (None:
\*       poll() is false); an IMU sample is attitude (degrees) and battery
\*       voltage (1/100 V), a range reading is in mm, a flow sample <<dx, dy>>;
\*   dt:   the values of prev_time - TOF_Time (ms);
\*   alt, vel: the grid of the vertical estimate (mm, mm/s);
\*   xy:   the grid of the horizontal estimate <<x, y, vx, vy>> (mm, mm/s);
\*   integ: the accumulated error integrals of a controller;
\*   track: whether the throttle controller's integral is accumulated tick by
\*       tick (in throttle_pd) or taken from integ.
\* the number of inbound pipes that hold a message in the same iteration
MaxWaiting == 1
ModeMsgs == {None, Some(TRUE), Some(FALSE)}
Level == [roll |-> 0, pitch |-> 0, volt |-> 1235, acc |-> 0]
TiltedLow == [roll |-> 60, pitch |-> 0, volt |-> 1000, acc |-> 0]
Overcharged == [roll |-> 0, pitch |-> 0, volt |-> 1700, acc |-> 0]
Still == <<0, 0, 0, 0>>
DriftB == <<1800, 2000, -6000, -6000>>
Env ==
    [ mode |-> ModeMsgs,
      imu |-> {None, Some(Level), Some(TiltedLow), Some(Overcharged)},
      tof |-> {None, Some(900)},
      flow |-> {None, Some(<<1000, 0>>)},
      dt |-> {0, 10},
      alt |-> {900},
      vel |-> {-5000, 0},
      xy |-> {Still, DriftB},
      integ |-> {0},
      track |-> FALSE ]

\* 1 / cos(angle) for the attitudes of the IMU samples: cos 0 = 1, cos 60 = 1/2
Sec(deg) == IF deg = 60 THEN 2 ELSE 1

\* ----------------------------------------------------------- pure helpers
value_limit_NoClamp(output, limit) == output
value_limit_Double(output, limit) ==
    IF Abs(output) >= limit
      THEN IF output < 0 THEN -2 * limit ELSE 2 * limit
      ELSE output
value_limit(output, limit) ==
    IF Abs(output) >= limit
      THEN IF output < 0 THEN -limit ELSE limit
      ELSE output

\* the inline clamp of roll and pitch
axis_limit(next, limit) ==
    IF Abs(next) <= limit THEN next
    ELSE (IF next < 0 THEN -1 ELSE 1) * limit

\* The hundredths k/100, 0 <= k < 200, whose double multiplied by 100 is a
\* double just below k (0.29 * 100 = 28.999999999999996), so that int() of
\* the product is k - 1.
FloatShort == {29, 57, 58, 113, 114, 115, 116}

\* truncate(data, dp = 2) on a value in thousandths: int(data*100)/100 in
\* double arithmetic, for |data| < 2000 and for whole numbers
truncate(data) ==
    LET h == TruncDiv(data, 10)
    IN IF data % 10 = 0 /\ Abs(h) \in FloatShort
         THEN (IF h < 0 THEN h + 1 ELSE h - 1) * 10
         ELSE h * 10

\* int(1015 - 60 * battery_voltage), voltage in 1/100 V
TakeoffThrust(volt) == TruncDiv(101500 - 60 * volt, 100)

\* PID.calc: Kp*error + Ki*integral + Kd*velocity, error in mm, velocity in
\* mm/s, result in thousandths
PIDcalc(Kp, Ki, Kd, integral, error, velocity) ==
    Kp * error + TruncDiv(Ki[1] * integral, Ki[2]) + Kd * velocity

\* ------------------------------------------------------------------ state
VARIABLES
    TAKEOFF,               \* self.TAKEOFF
    LANDING,               \* self.LANDING
    TAKEOFF_LIST,          \* self.TAKEOFF_LIST, the fractions not yet popped
    imu,                   \* self.imu: attitude [roll, pitch] in degrees, and acc
    TAKEOFF_THRUST,        \* local TAKEOFF_THRUST, unbound until an IMU sample
    imut, oft, toft,       \* whether the debug timestamps imut/oft/toft are bound
    prev_altitude_sensor,  \* None or a length
    altitude_sensor,       \* None or the latest raw range reading
    altitude,              \* unbound, or the altitude captured after predict
    altitude_corrected,    \* None or the tilt-corrected reading
    value_available,
    postition_hold,
    init_altitude,         \* 0, None, or the reference altitude
    CMDS,                  \* the command dictionary
    tof_x,                 \* tof_filter.x = <<altitude, velocity>>
    tof_F01, tof_B0, tof_B1, \* tof_filter.F[0,1], .B[0], .B[1] (ms, ms^2/2, ms)
    velocity,              \* local velocity
    dt,                    \* local dt
    cancel_gravity_value,  \* local cancel_gravity_value
    next_throttle,         \* local next_throttle
    KFXY_x,                \* KFXY.x = <<x, y, vx, vy>>
    KFXY_z,                \* KFXY_z = <<z0, z1>>
    pending,               \* commands sent on ext_control_pipe_write, not yet received
    outcome,               \* how the last loop iteration ended
    published,             \* whether the last loop iteration sent CMDS
    silent,                \* whether no poll() of the last iteration found a message
    tokens,                \* pacing tokens sent by the latest iteration
    mode_read,             \* the mode message received by the latest iteration
    last_mode,             \* the mode message received last before it
    throttle_pd,           \* throttle_pd: the accumulated integral (mm s)
    probe                  \* harness of the pure functions

vars ==
    << TAKEOFF, LANDING, TAKEOFF_LIST, imu, TAKEOFF_THRUST, imut, oft, toft,
       prev_altitude_sensor, altitude_sensor, altitude, altitude_corrected,
       value_available, postition_hold, init_altitude, CMDS, tof_x,
       tof_F01, tof_B0, tof_B1, velocity, dt, cancel_gravity_value,
       next_throttle, KFXY_x, KFXY_z, pending, outcome, published, silent,
       tokens, mode_read, last_mode, throttle_pd, probe >>

\* the program state as one record, the form the steps of an iteration work on
Cur ==
    [ TAKEOFF |-> TAKEOFF, LANDING |-> LANDING, TAKEOFF_LIST |-> TAKEOFF_LIST,
      imu |-> imu, TAKEOFF_THRUST |-> TAKEOFF_THRUST, imut |-> imut,
      oft |-> oft, toft |-> toft,
      prev_altitude_sensor |-> prev_altitude_sensor,
      altitude_sensor |-> altitude_sensor, altitude |-> altitude,
      altitude_corrected |-> altitude_corrected,
      value_available |-> value_available, postition_hold |-> postition_hold,
      init_altitude |-> init_altitude, CMDS |-> CMDS, tof_x |-> tof_x,
      tof_F01 |-> tof_F01, tof_B0 |-> tof_B0, tof_B1 |-> tof_B1,
      velocity |-> velocity, dt |-> dt,
      cancel_gravity_value |-> cancel_gravity_value,
      next_throttle |-> next_throttle, KFXY_x |-> KFXY_x, KFXY_z |-> KFXY_z,
      pending |-> pending, outcome |-> outcome, published |-> published,
      silent |-> silent, tokens |-> tokens, mode_read |-> mode_read,
      last_mode |-> last_mode, throttle_pd |-> throttle_pd ]

Commit(s) ==
    /\ TAKEOFF' = s.TAKEOFF
    /\ LANDING' = s.LANDING
    /\ TAKEOFF_LIST' = s.TAKEOFF_LIST
    /\ imu' = s.imu
    /\ TAKEOFF_THRUST' = s.TAKEOFF_THRUST
    /\ imut' = s.imut
    /\ oft' = s.oft
    /\ toft' = s.toft
    /\ prev_altitude_sensor' = s.prev_altitude_sensor
    /\ altitude_sensor' = s.altitude_sensor
    /\ altitude' = s.altitude
    /\ altitude_corrected' = s.altitude_corrected
    /\ value_available' = s.value_available
    /\ postition_hold' = s.postition_hold
    /\ init_altitude' = s.init_altitude
    /\ CMDS' = s.CMDS
    /\ tof_x' = s.tof_x
    /\ tof_F01' = s.tof_F01
    /\ tof_B0' = s.tof_B0
    /\ tof_B1' = s.tof_B1
    /\ velocity' = s.velocity
    /\ dt' = s.dt
    /\ cancel_gravity_value' = s.cancel_gravity_value
    /\ next_throttle' = s.next_throttle
    /\ KFXY_x' = s.KFXY_x
    /\ KFXY_z' = s.KFXY_z
    /\ pending' = s.pending
    /\ outcome' = s.outcome
    /\ published' = s.published
    /\ silent' = s.silent
    /\ tokens' = s.tokens
    /\ mode_read' = s.mode_read
    /\ last_mode' = s.last_mode
    /\ throttle_pd' = s.throttle_pd
    /\ probe' = probe

\* the state when control_process enters its loop
InitProgram ==
    /\ TAKEOFF = TRUE
    /\ LANDING = FALSE
    /\ TAKEOFF_LIST = InitTAKEOFF_LIST
    /\ imu = [roll |-> 0, pitch |-> 0, acc |-> 0]
    /\ TAKEOFF_THRUST = None
    /\ imut = FALSE
    /\ oft = FALSE
    /\ toft = FALSE
    /\ prev_altitude_sensor = None
    /\ altitude_sensor = None
    /\ altitude = None
    /\ altitude_corrected = None
    /\ value_available = FALSE
    /\ postition_hold = FALSE
    /\ init_altitude = Some(0)
    /\ CMDS = [throttle |-> 0, roll |-> 0, pitch |-> 0]
    /\ tof_x = <<0, 0>>
    /\ tof_F01 = 10
    /\ tof_B0 = 0
    /\ tof_B1 = 10
    /\ velocity = None
    /\ dt = None
    /\ cancel_gravity_value = None
    /\ next_throttle = None
    /\ KFXY_x = <<0, 0, 0, 0>>
    /\ KFXY_z = <<0, 0>>
    /\ pending = 0
    /\ outcome = "init"
    /\ published = FALSE
    /\ silent = TRUE
    /\ tokens = [flow |-> 0, tof |-> 0]
    /\ mode_read = None
    /\ last_mode = None
    /\ throttle_pd = 0

NoProbe == [fn |-> "none", output |-> 0, limit |-> 0, result |-> 0]

Init == InitProgram /\ probe = NoProbe

\* ------------------------------------------------ steps of one iteration
\* an exception: the rest of the try body is skipped
Raise(s) == [s EXCEPT !.outcome = "fault"]

\* lines 142-147: the placeholder command and the pacing tokens, sent before
\* any poll()
Begin_FlowTokenOnly(s) ==
    [s EXCEPT !.CMDS = [throttle |-> IDLE_THROTTLE * Milli, roll |-> 0, pitch |-> 0],
              !.tokens = [flow |-> 1, tof |-> 0],
              !.last_mode = IF s.mode_read # None THEN s.mode_read ELSE @,
              !.mode_read = None,
              !.outcome = "run", !.published = FALSE, !.silent = TRUE]
Begin(s) ==
    [s EXCEPT !.CMDS = [throttle |-> IDLE_THROTTLE * Milli, roll |-> 0, pitch |-> 0],
              !.tokens = [flow |-> 1, tof |-> 1],
              !.last_mode = IF s.mode_read # None THEN s.mode_read ELSE @,
              !.mode_read = None,
              !.outcome = "run", !.published = FALSE, !.silent = TRUE]

\* lines 149-153: the mode request, m = None when poll() is false
ReadMode_KeepReference(s, m) ==
    IF m = None THEN s
    ELSE [s EXCEPT !.postition_hold = Val(m),
                   !.LANDING = IF Val(m) THEN @ ELSE TRUE,
                   !.mode_read = m,
                   !.silent = FALSE]
ReadMode_ClearLanding(s, m) ==
    IF m = None THEN s
    ELSE [s EXCEPT !.postition_hold = Val(m),
                   !.LANDING = ~Val(m),
                   !.init_altitude = IF Val(m) THEN @ ELSE None,
                   !.mode_read = m,
                   !.silent = FALSE]
ReadMode(s, m) ==
    IF m = None THEN s
    ELSE [s EXCEPT !.postition_hold = Val(m),
                   !.LANDING = IF Val(m) THEN @ ELSE TRUE,
                   !.init_altitude = IF Val(m) THEN @ ELSE None,
                   !.mode_read = m,
                   !.silent = FALSE]

\* lines 156-162: the IMU sample, i = None when poll() is false
ReadImu_Refresh(s, i) ==
    IF i = None THEN s
    ELSE [s EXCEPT !.imu = [roll |-> Val(i).roll, pitch |-> Val(i).pitch,
                           acc |-> Val(i).acc],
                   !.imut = TRUE,
                   !.TAKEOFF_THRUST = Some(TakeoffThrust(Val(i).volt)),
                   !.cancel_gravity_value =
                       IF s.TAKEOFF THEN @
                       ELSE Some(InitTAKEOFF_LIST[ProfileLen]
                                 * TakeoffThrust(Val(i).volt)),
                   !.silent = FALSE]
ReadImu(s, i) ==
    IF i = None THEN s
    ELSE [s EXCEPT !.imu = [roll |-> Val(i).roll, pitch |-> Val(i).pitch,
                           acc |-> Val(i).acc],
                   !.imut = TRUE,
                   !.TAKEOFF_THRUST =
                       IF s.TAKEOFF THEN Some(TakeoffThrust(Val(i).volt)) ELSE @,
                   !.silent = FALSE]

\* lines 165-173: the re-latch, which ends the iteration with continue
HoldReset_Retake(s) ==
    IF s.postition_hold /\ Truthy(s.altitude_sensor)
      THEN [s EXCEPT !.prev_altitude_sensor = s.altitude_sensor,
                     !.init_altitude = s.altitude_sensor,
                     !.postition_hold = FALSE,
                     !.tof_x = <<Val(s.altitude_sensor), 0>>,
                     !.TAKEOFF = TRUE,
                     !.outcome = "continue"]
      ELSE s
HoldReset_ResetIntegrator(s) ==
    IF s.postition_hold /\ Truthy(s.altitude_sensor)
      THEN [s EXCEPT !.prev_altitude_sensor = s.altitude_sensor,
                     !.init_altitude = s.altitude_sensor,
                     !.postition_hold = FALSE,
                     !.tof_x = <<Val(s.altitude_sensor), 0>>,
                     !.throttle_pd = 0,
                     !.outcome = "continue"]
      ELSE s
HoldReset_DropPending(s) ==
    IF s.postition_hold /\ Truthy(s.altitude_sensor)
      THEN [s EXCEPT !.prev_altitude_sensor = s.altitude_sensor,
                     !.init_altitude = s.altitude_sensor,
                     !.postition_hold = FALSE,
                     !.tof_x = <<Val(s.altitude_sensor), 0>>,
                     !.outcome = "continue"]
      ELSE [s EXCEPT !.postition_hold = FALSE]
HoldReset_KeepEstimate(s) ==
    IF s.postition_hold /\ Truthy(s.altitude_sensor)
      THEN [s EXCEPT !.prev_altitude_sensor = s.altitude_sensor,
                     !.init_altitude = s.altitude_sensor,
                     !.postition_hold = FALSE,
                     !.outcome = "continue"]
      ELSE s
HoldReset_RisingEdge(s) ==
    IF s.postition_hold /\ Truthy(s.altitude_sensor)
       /\ s.last_mode # Some(TRUE)
      THEN [s EXCEPT !.prev_altitude_sensor = s.altitude_sensor,
                     !.init_altitude = s.altitude_sensor,
                     !.postition_hold = FALSE,
                     !.tof_x = <<Val(s.altitude_sensor), 0>>,
                     !.outcome = "continue"]
      ELSE s
HoldReset(s) ==
    IF s.postition_hold /\ Truthy(s.altitude_sensor)
      THEN [s EXCEPT !.prev_altitude_sensor = s.altitude_sensor,
                     !.init_altitude = s.altitude_sensor,
                     !.postition_hold = FALSE,
                     !.tof_x = <<Val(s.altitude_sensor), 0>>,
                     !.outcome = "continue"]
      ELSE s

\* lines 180-182: the entries of F and B set from dt
CouplingF_Always(d) == d
CouplingF(d) == IF d < DT_LIMIT THEN d ELSE 0
ControlB0(d) == IF d < DT_LIMIT THEN (d * d) \div 2 ELSE 0
ControlB1(d) == d

\* line 183, tof_filter.predict(u = 0): x = F x + B u. The velocity is kept;
\* the altitude is kept when F[0,1] * velocity = 0 and is any altitude of the
\* grid otherwise.
PredictVertical(x, F01, E) ==
    IF F01 * x[2] = 0 THEN {x} ELSE {<<a, x[2]>> : a \in E.alt}

\* lines 189-198: the takeoff ramp
TakeoffStep_KeepCursor(s) ==
    IF ~s.TAKEOFF THEN s
    ELSE IF Len(s.TAKEOFF_LIST) # 0
      THEN IF ~Bound(s.TAKEOFF_THRUST) THEN Raise(s)
           ELSE LET thr == s.TAKEOFF_LIST[1] * Val(s.TAKEOFF_THRUST)
                IN [s EXCEPT !.CMDS.throttle = thr,
                             !.value_available = TRUE,
                             !.cancel_gravity_value = Some(thr)]
      ELSE [s EXCEPT !.init_altitude = Some(TAKEOFF_ALTITUDE * Milli),
                     !.velocity = Some(0),
                     !.TAKEOFF = FALSE]
TakeoffStep_PopLast(s) ==
    IF ~s.TAKEOFF THEN s
    ELSE IF Len(s.TAKEOFF_LIST) # 0
      THEN IF ~Bound(s.TAKEOFF_THRUST) THEN Raise(s)
           ELSE LET n == Len(s.TAKEOFF_LIST)
                    thr == s.TAKEOFF_LIST[n] * Val(s.TAKEOFF_THRUST)
                IN [s EXCEPT !.CMDS.throttle = thr,
                             !.value_available = TRUE,
                             !.TAKEOFF_LIST = SubSeq(@, 1, n - 1),
                             !.cancel_gravity_value = Some(thr)]
      ELSE [s EXCEPT !.init_altitude = Some(TAKEOFF_ALTITUDE * Milli),
                     !.velocity = Some(0),
                     !.TAKEOFF = FALSE]
TakeoffStep_KeepVelocity(s) ==
    IF ~s.TAKEOFF THEN s
    ELSE IF Len(s.TAKEOFF_LIST) # 0
      THEN IF ~Bound(s.TAKEOFF_THRUST) THEN Raise(s)
           ELSE LET thr == s.TAKEOFF_LIST[1] * Val(s.TAKEOFF_THRUST)
                IN [s EXCEPT !.CMDS.throttle = thr,
                             !.value_available = TRUE,
                             !.TAKEOFF_LIST = Tail(@),
                             !.cancel_gravity_value = Some(thr)]
      ELSE [s EXCEPT !.init_altitude = Some(TAKEOFF_ALTITUDE * Milli),
                     !.TAKEOFF = FALSE]
TakeoffStep(s) ==
    IF ~s.TAKEOFF THEN s
    ELSE IF Len(s.TAKEOFF_LIST) # 0
      THEN IF ~Bound(s.TAKEOFF_THRUST) THEN Raise(s)
           ELSE LET thr == s.TAKEOFF_LIST[1] * Val(s.TAKEOFF_THRUST)
                IN [s EXCEPT !.CMDS.throttle = thr,
                             !.value_available = TRUE,
                             !.TAKEOFF_LIST = Tail(@),
                             !.cancel_gravity_value = Some(thr)]
      ELSE [s EXCEPT !.init_altitude = Some(TAKEOFF_ALTITUDE * Milli),
                     !.velocity = Some(0),
                     !.TAKEOFF = FALSE]

\* the largest magnitude the accumulated integral is followed to (mm s)
MaxIntegral == 400

\* PID.calc's integrator: the integral of error (mm) over time (ms), in mm s
Integrate(acc, error, time) ==
    LET n == acc + TruncDiv(error * time, Milli)
    IN IF n > MaxIntegral THEN MaxIntegral
       ELSE IF n < -MaxIntegral THEN -MaxIntegral ELSE n

\* the integral throttle_pd.calc works with in this iteration
Integrals(s, E) ==
    IF s.TAKEOFF THEN {s.throttle_pd}
    ELSE IF E.track
      THEN {Integrate(s.throttle_pd, Val(s.init_altitude) - Val(s.altitude),
                      Val(s.dt))}
      ELSE E.integ

\* lines 201-209: the throttle controller, with the accumulated integral i
ThrottlePID_ErrorReversed(s, i) ==
    IF s.TAKEOFF THEN s
    ELSE LET error_altitude == Val(s.altitude) - Val(s.init_altitude)
             next == PIDcalc(PZ_GAIN, IZ_GAIN, DZ_GAIN, i,
                             error_altitude, -Val(s.velocity))
         IN [s EXCEPT !.next_throttle = Some(next),
                      !.throttle_pd = i,
                      !.CMDS.throttle =
                          value_limit(next, ABS_MAX_VALUE_THROTTLE * Milli)
                          + Val(s.cancel_gravity_value)
                            * Sec(s.imu.roll) * Sec(s.imu.pitch),
                      !.value_available = TRUE,
                      !.prev_altitude_sensor = s.altitude_corrected]
ThrottlePID(s, i) ==
    IF s.TAKEOFF THEN s
    ELSE LET error_altitude == Val(s.init_altitude) - Val(s.altitude)
             next == PIDcalc(PZ_GAIN, IZ_GAIN, DZ_GAIN, i,
                             error_altitude, -Val(s.velocity))
         IN [s EXCEPT !.next_throttle = Some(next),
                      !.throttle_pd = i,
                      !.CMDS.throttle =
                          value_limit(next, ABS_MAX_VALUE_THROTTLE * Milli)
                          + Val(s.cancel_gravity_value)
                            * Sec(s.imu.roll) * Sec(s.imu.pitch),
                      !.value_available = TRUE,
                      !.prev_altitude_sensor = s.altitude_corrected]

\* lines 176-209: the vertical block, for each dt and each predict result
Vertical(s, E) ==
    IF ~Truthy(s.init_altitude) THEN {s}
    ELSE UNION { UNION {
           LET p == [s EXCEPT !.dt = Some(d),
                              !.tof_F01 = CouplingF(d),
                              !.tof_B0 = ControlB0(d),
                              !.tof_B1 = ControlB1(d),
                              !.tof_x = x,
                              !.altitude = Some(x[1]),
                              !.velocity = Some(x[2])]
               t == TakeoffStep(p)
           IN IF t.outcome = "fault" THEN {t}
              ELSE {ThrottlePID(t, i) : i \in Integrals(t, E)}
           : x \in PredictVertical(s.tof_x, CouplingF(d), E) } : d \in E.dt }

\* lines 212-214
Landing_Skip(s) == s
Landing(s) ==
    IF ~s.TAKEOFF /\ s.LANDING
      THEN [s EXCEPT !.CMDS.throttle =
                Val(s.cancel_gravity_value) - LANDING_DECREMENT * Milli]
      ELSE s

\* line 232: altitude_sensor * cos(roll) * cos(pitch)
TiltCorrected(reading, att) == TruncDiv(reading, Sec(att.roll) * Sec(att.pitch))

\* line 234, tof_filter.update(z): any estimate of the grid
UpdateVertical(E) == E.alt \X E.vel

\* lines 217-234: the range sample, t = None when poll() is false.
\* The measurement (x - prev_altitude_sensor) / dt raises when
\* prev_altitude_sensor is None (TypeError) and when dt = 0 (the quotient is
\* inf or nan, which int() in truncate rejects).
ReadTof(s, t, E) ==
    IF t = None THEN {s}
    ELSE IF ~Truthy(s.init_altitude)
      THEN {[s EXCEPT !.altitude_sensor = t, !.silent = FALSE]}
      ELSE LET r == [s EXCEPT !.altitude_sensor = t,
                              !.toft = TRUE,
                              !.altitude_corrected =
                                  Some(TiltCorrected(Val(t), s.imu)),
                              !.silent = FALSE]
           IN IF ~Bound(s.prev_altitude_sensor) \/ Val(s.dt) = 0
                THEN {Raise(r)}
                ELSE {[r EXCEPT !.tof_x = x] : x \in UpdateVertical(E)}

\* lines 242-243: KFXY.R[0,0] = KFXY.R[1,1] = 0.01 + velocity/100, in
\* thousandths for a velocity in mm/s
KFXY_R(v) == TruncDiv(Milli, 100) + TruncDiv(v, 100)

\* line 257, KFXY.update(z): any estimate of the grid
UpdateXY(E) == E.xy

\* line 259, KFXY.predict(u = 0): x = F x. The velocities are kept; the
\* positions are kept when F[0,2] * vx = 0 and F[1,3] * vy = 0, which holds
\* when the velocities are 0 or dt_OF is 0 or at least 3 s.
PredictXY(x, E) ==
    {x} \cup {g \in E.xy : g[3] = x[3] /\ g[4] = x[4]}

\* lines 252-257: the flow sample, f = None when poll() is false
ReadFlow(s, f, E) ==
    IF f = None THEN {s}
    ELSE {[s EXCEPT !.KFXY_z = Val(f), !.oft = TRUE, !.KFXY_x = x,
                    !.silent = FALSE] : x \in UpdateXY(E)}

AxisControl_ErrorSign(s, iy, ix) ==
    LET error_roll == TruncDiv(truncate(0 - s.KFXY_x[2]), ROLL_DIVISOR)
        error_pitch == TruncDiv(truncate(0 - s.KFXY_x[1]), PITCH_DIVISOR)
        next_roll == PIDcalc(PY_GAIN, IY_GAIN, DY_GAIN, iy,
                             error_roll, -truncate(s.KFXY_x[4]))
        next_pitch == PIDcalc(PX_GAIN, IX_GAIN, DX_GAIN, ix,
                              error_pitch, -truncate(s.KFXY_x[3]))
        Cut(next, error, limit) ==
            IF Abs(next) <= limit THEN next
            ELSE (IF error < 0 THEN -1 ELSE 1) * limit
    IN [s EXCEPT !.CMDS.roll = Cut(next_roll, error_roll,
                                   ABS_MAX_VALUE_ROLL * Milli),
                 !.CMDS.pitch = Cut(next_pitch, error_pitch,
                                    ABS_MAX_VALUE_PITCH * Milli),
                 !.value_available = TRUE]

\* lines 262-270: the roll and pitch controllers (init_x = init_y = 0), with
\* the accumulated integrals iy and ix
AxisControl(s, iy, ix) ==
    LET error_roll == TruncDiv(truncate(0 - s.KFXY_x[2]), ROLL_DIVISOR)
        error_pitch == TruncDiv(truncate(0 - s.KFXY_x[1]), PITCH_DIVISOR)
        velocity_roll == truncate(s.KFXY_x[4])
        velocity_pitch == truncate(s.KFXY_x[3])
        next_roll == PIDcalc(PY_GAIN, IY_GAIN, DY_GAIN, iy,
                             error_roll, -velocity_roll)
        next_pitch == PIDcalc(PX_GAIN, IX_GAIN, DX_GAIN, ix,
                              error_pitch, -velocity_pitch)
    IN [s EXCEPT !.CMDS.roll = axis_limit(next_roll, ABS_MAX_VALUE_ROLL * Milli),
                 !.CMDS.pitch = axis_limit(next_pitch, ABS_MAX_VALUE_PITCH * Milli),
                 !.value_available = TRUE]

\* lines 287-289: publish unless a command is still unread
SendNoPoll(s) ==
    IF s.value_available
      THEN [s EXCEPT !.pending = @ + 1, !.published = TRUE,
                     !.value_available = FALSE]
      ELSE s
Send(s) ==
    IF s.value_available /\ s.pending = 0
      THEN [s EXCEPT !.pending = @ + 1, !.published = TRUE,
                     !.value_available = FALSE]
      ELSE s

\* lines 272-285: the diagnostic prints. They read oft, imut and toft, which
\* are bound only once a flow, an IMU and a range sample have been processed,
\* and truncate(... altitude / dt), which raises when dt = 0.
Diagnostics_AfterSend(s) ==
    IF ~s.oft \/ ~s.imut \/ ~s.toft \/ Val(s.dt) = 0 THEN Raise(Send(s)) ELSE s
Diagnostics(s) ==
    IF ~s.oft \/ ~s.imut \/ ~s.toft \/ Val(s.dt) = 0 THEN Raise(s) ELSE s

\* the largest decimal exponent of a double (1.797e308): a product beyond
\* it is inf, which int() in truncate rejects with OverflowError
DoubleMaxExp == 308

\* imu.acc is 0 for an acceleration of 0, and k > 0 for one of 10^k m/s^2;
\* lines 250-251 compute truncate(9.81 * acc * cos(angle)), whose
\* int(data * 100) overflows from 9.81e306 * 100 on
Overflows(k) == k + 2 >= DoubleMaxExp

\* lines 250-251 and 259: KFXY_u is computed from the acceleration, and
\* KFXY.predict is called with u = 0
ControlInput_Applied(s) ==
    IF Overflows(s.imu.acc) THEN Raise(s)
    ELSE [s EXCEPT !.KFXY_x = <<@[1], @[2], @[3] + s.imu.acc, @[4]>>]
ControlInput(s) ==
    IF Overflows(s.imu.acc) THEN Raise(s) ELSE s

\* lines 238-285: the horizontal block
Horizontal_InTakeoff(s, f, E) ==
    UNION { UNION {
       {Diagnostics(AxisControl([r EXCEPT !.KFXY_x = x], iy, ix))
          : iy \in E.integ, ix \in E.integ}
       : x \in PredictXY(r.KFXY_x, E) }
       : r \in ReadFlow(s, f, E) }
Horizontal(s, f, E) ==
    IF s.TAKEOFF THEN {s}
    ELSE IF ControlInput(s).outcome = "fault" THEN {ControlInput(s)}
    ELSE UNION { UNION {
           {Diagnostics(AxisControl([r EXCEPT !.KFXY_x = x], iy, ix))
              : iy \in E.integ, ix \in E.integ}
           : x \in PredictXY(r.KFXY_x, E) }
           : r \in ReadFlow(ControlInput(s), f, E) }

Finish(s) == [s EXCEPT !.outcome = "complete"]

\* lines 141-294: one iteration of the loop, for the messages m, i, t, f
\* found on the mode, IMU, range and flow pipes; the rest of the try body is
\* skipped once an exception was raised
Iteration(s, m, i, t, f, E) ==
    LET Then(S, Step(_)) ==
            UNION {IF v.outcome = "run" THEN Step(v) ELSE {v} : v \in S}
        One(S, Step(_)) ==
            {IF v.outcome = "run" THEN Step(v) ELSE v : v \in S}
        ReadTofT(v) == ReadTof(v, t, E)
        HorizontalE(v) == Horizontal(v, f, E)
        a == HoldReset(ReadImu(ReadMode(Begin(s), m), i))
    IN IF a.outcome = "continue" THEN {a}
       ELSE One(One(Then(Then(One(Vertical(a, E), Landing), ReadTofT),
                         HorizontalE), Send), Finish)

\* ---------------------------------------------------------------- actions
Waiting(msgs) == Cardinality({k \in DOMAIN msgs : msgs[k] # None})

TickIn(E) ==
    \E m \in E.mode, i \in E.imu, t \in E.tof, f \in E.flow :
        /\ Waiting(<<m, i, t, f>>) <= MaxWaiting
        /\ \E r \in Iteration(Cur, m, i, t, f, E) : Commit(r)

Tick == TickIn(Env)

\* the joystick loop receives the pending command
Receive ==
    /\ pending > 0
    /\ pending' = pending - 1
    /\ UNCHANGED << TAKEOFF, LANDING, TAKEOFF_LIST, imu, TAKEOFF_THRUST, imut,
                    oft, toft, prev_altitude_sensor, altitude_sensor, altitude,
                    altitude_corrected, value_available, postition_hold,
                    init_altitude, CMDS, tof_x, tof_F01, tof_B0, tof_B1,
                    velocity, dt, cancel_gravity_value, next_throttle, KFXY_x,
                    KFXY_z, outcome, published, silent, tokens, mode_read,
                    last_mode, throttle_pd, probe >>

Next == Tick \/ Receive

Spec == Init /\ [][Next]_vars

\* the variables of control_process
program ==
    << TAKEOFF, LANDING, TAKEOFF_LIST, imu, TAKEOFF_THRUST, imut, oft, toft,
       prev_altitude_sensor, altitude_sensor, altitude, altitude_corrected,
       value_available, postition_hold, init_altitude, CMDS, tof_x,
       tof_F01, tof_B0, tof_B1, velocity, dt, cancel_gravity_value,
       next_throttle, KFXY_x, KFXY_z, pending, outcome, published, silent,
       tokens, mode_read, last_mode, throttle_pd >>

\* ------------------------------------- a persistent altitude error
\* the altitude estimate held at 0.90 m with zero velocity and zero tilt,
\* and the throttle controller's integral accumulated
EnvHold ==
    [ mode |-> ModeMsgs,
      imu |-> {None, Some(Level)},
      tof |-> {None, Some(900)},
      flow |-> {None, Some(<<1000, 0>>)},
      dt |-> {0, 2000},
      alt |-> {900},
      vel |-> {0},
      xy |-> {Still},
      integ |-> {0},
      track |-> TRUE ]

TickHold == TickIn(EnvHold)

NextHold == TickHold \/ Receive

SpecHold == Init /\ [][NextHold]_vars

\* ------------------------------------------- a range reading of zero
\* the range sensor delivers readings of 0 and of 0.9 m
EnvZero ==
    [ mode |-> ModeMsgs,
      imu |-> {None, Some(Level)},
      tof |-> {None, Some(0), Some(900)},
      flow |-> {None},
      dt |-> {10},
      alt |-> {900},
      vel |-> {0},
      xy |-> {Still},
      integ |-> {0},
      track |-> FALSE ]

TickZero == TickIn(EnvZero)

NextZero == TickZero \/ Receive

SpecZero == Init /\ [][NextZero]_vars

\* ------------------------------------- IMU samples with accelerations
\* the accelerations tried: 0, 10 m/s^2, and the two around the overflow
AccExps == {0, 1, DoubleMaxExp - 3, DoubleMaxExp - 2}

EnvShake ==
    [ mode |-> {None, Some(TRUE)},
      imu |-> {None} \cup {Some([Level EXCEPT !.acc = k]) : k \in AccExps},
      tof |-> {None, Some(900)},
      flow |-> {None, Some(<<1000, 0>>)},
      dt |-> {10},
      alt |-> {900},
      vel |-> {0},
      xy |-> {Still, DriftB},
      integ |-> {0},
      track |-> FALSE ]

TickShake == TickIn(EnvShake)

NextShake == TickShake \/ Receive

SpecShake == Init /\ [][NextShake]_vars

\* ------------------------------------------- elapsed times around 3 s
\* the elapsed times prev_time - TOF_Time just below, at and above 3 s, their
\* reversals, and a usual one
EnvGap ==
    [ mode |-> {None, Some(TRUE)},
      imu |-> {None, Some(Level)},
      tof |-> {None, Some(900)},
      flow |-> {None},
      dt |-> {10, DT_LIMIT - 1, DT_LIMIT, DT_LIMIT + 1,
              -(DT_LIMIT - 1), -DT_LIMIT, -(DT_LIMIT + 1)},
      alt |-> {900},
      vel |-> {-5000, 0},
      xy |-> {Still},
      integ |-> {0},
      track |-> FALSE ]

TickGap == TickIn(EnvGap)

NextGap == TickGap \/ Receive

SpecGap == Init /\ [][NextGap]_vars

\* ------------------------------- elapsed times of the horizontal predict
\* lines 244-247: F[0,2] and F[1,3] from dt_OF, B[2,2] and B[3,3] from
\* dt_IMU, each "dt if abs(dt<3) else 0"
HorizontalGap(dt_OF, dt_IMU) ==
    [F02 |-> CouplingF(dt_OF), F13 |-> CouplingF(dt_OF),
     B22 |-> CouplingF(dt_IMU), B33 |-> CouplingF(dt_IMU)]

\* the elapsed times tried: usual ones, and just below, at and above 3 s
\* in both directions
GapTimes ==
    {0, 10, DT_LIMIT - 1, DT_LIMIT, DT_LIMIT + 1,
     -(DT_LIMIT - 1), -DT_LIMIT, -(DT_LIMIT + 1)}

InitXYGap ==
    /\ InitProgram
    /\ probe \in {[fn |-> "input", dt_OF |-> a, dt_IMU |-> b,
                   entries |-> HorizontalGap(0, 0)]
                    : a \in GapTimes, b \in GapTimes}

\* lines 240-247 applied to the drawn elapsed times
ApplyHorizontalGap ==
    /\ probe.fn = "input"
    /\ probe' = [probe EXCEPT !.fn = "horizontal",
                   !.entries = HorizontalGap(probe.dt_OF, probe.dt_IMU)]
    /\ UNCHANGED program

NextXYGap == ApplyHorizontalGap

SpecXYGap == InitXYGap /\ [][NextXYGap]_vars

\* ------------------------------------------------------------- truncate
\* the largest magnitude of an input of truncate, in thousandths
MaxData == 1300

TruncateInputs ==
    {[fn |-> "input", data |-> x, result |-> 0, again |-> 0]
       : x \in -MaxData..MaxData}

InitTruncate == InitProgram /\ probe \in TruncateInputs

\* self.truncate(data) applied to the drawn input
ApplyTruncate ==
    /\ probe.fn = "input"
    /\ probe' = [probe EXCEPT !.fn = "truncate", !.result = truncate(probe.data)]
    /\ UNCHANGED program

\* self.truncate applied to its own result
ApplyTruncateAgain ==
    /\ probe.fn = "truncate"
    /\ probe' = [probe EXCEPT !.fn = "truncate twice",
                              !.again = truncate(probe.result)]
    /\ UNCHANGED program

NextTruncate == ApplyTruncate \/ ApplyTruncateAgain

SpecTruncate == InitTruncate /\ [][NextTruncate]_vars

\* ------------------------------------------- the flow measurement
\* KFXY.H: the state [x, y, vx, vy] entry each measurement channel observes
KFXY_H == << <<0, 0, 1, 0>>, <<0, 0, 0, 1>> >>

\* the measurement channel that observes state entry n
ChannelOf(n) == CHOOSE r \in 1..2 : KFXY_H[r][n] = 1

\* line 254 and line 257: KFXY_z holds the sample in the order received and
\* KFXY.update is given KFXY_z * (-altitude); sample in thousandths,
\* altitude in mm
FlowMeasurement(sample, a) ==
    << TruncDiv(sample[1] * (0 - a), Milli), TruncDiv(sample[2] * (0 - a), Milli) >>

\* the flow components tried are the multiples of 0.5 up to MaxFlow halves
MaxFlow == 2
FlowInputs ==
    {[fn |-> "input", sample |-> <<dx * 500, dy * 500>>, altitude |-> a,
      z |-> <<0, 0>>]
       : dx \in -MaxFlow..MaxFlow, dy \in -MaxFlow..MaxFlow,
         a \in {-2000, 0, 900}}

InitFlow == InitProgram /\ probe \in FlowInputs

\* lines 254-257 applied to the drawn sample and altitude estimate
ApplyFlowMeasurement ==
    /\ probe.fn = "input"
    /\ probe' = [probe EXCEPT !.fn = "update",
                              !.z = FlowMeasurement(probe.sample, probe.altitude)]
    /\ UNCHANGED program

NextFlow == ApplyFlowMeasurement

SpecFlow == InitFlow /\ [][NextFlow]_vars

\* ------------------------------------------------ the saturation functions
\* the largest magnitude of an output and the largest limit that are tried
MaxOutput == 8
MaxLimit == 4

ClampInputs ==
    {[fn |-> "input", output |-> o, limit |-> l, result |-> 0]
       : o \in -MaxOutput..MaxOutput, l \in 1..MaxLimit}

InitClamp == InitProgram /\ probe \in ClampInputs

\* self.value_limit(output, limit) applied to the drawn input
ApplyValueLimit ==
    /\ probe.fn = "input"
    /\ probe' = [probe EXCEPT !.fn = "value_limit",
                              !.result = value_limit(probe.output, probe.limit)]
    /\ UNCHANGED program

\* the inline clamp of lines 268-269 applied to the drawn input
ApplyAxisLimit ==
    /\ probe.fn = "input"
    /\ probe' = [probe EXCEPT !.fn = "axis_limit",
                              !.result = axis_limit(probe.output, probe.limit)]
    /\ UNCHANGED program

NextClamp == ApplyValueLimit \/ ApplyAxisLimit

SpecClamp == InitClamp /\ [][NextClamp]_vars

\* ------------------------------------------------- MSPy.connect, __enter__
\* the largest number of trials that is tried
MaxTrials == 3

\* what one attempt (start() then basic_info()) can do: complete, raise one
\* of the two exceptions connect catches, or raise another exception
AttemptOutcomes == {"ok", "SerialException", "FileNotFoundError", "OSError"}
Caught == {"SerialException", "FileNotFoundError"}

\* __enter__: is_connection_open = not self.connect(...)
is_connection_open_Raw(r) == r # 0
is_connection_open(r) == ~(r # 0)

ConnectInputs ==
    {[fn |-> "connect", trials |-> n, attempts |-> <<>>, at |-> "for",
      result |-> None, entered |-> "pending"] : n \in 0..MaxTrials}

InitConnect == InitProgram /\ probe \in ConnectInputs

\* one pass of the for loop of connect: the attempt returns 0 when it
\* completes, goes to the sleep when it raised a caught exception, and
\* leaves connect when it raised any other exception
ConnectAttempt ==
    /\ probe.at = "for" /\ Len(probe.attempts) < probe.trials
    /\ \E o \in AttemptOutcomes :
         probe' = [probe EXCEPT
                     !.attempts = Append(@, o),
                     !.at = IF o = "ok" THEN "return"
                            ELSE IF o \in Caught THEN "sleep" ELSE "raise",
                     !.result = IF o = "ok" THEN Some(0) ELSE @]
    /\ UNCHANGED program

\* time.sleep(delay), then the next pass
ConnectSleep ==
    /\ probe.at = "sleep"
    /\ probe' = [probe EXCEPT !.at = "for"]
    /\ UNCHANGED program

\* range(trials) is exhausted: return 1
ConnectGiveUp ==
    /\ probe.at = "for" /\ Len(probe.attempts) >= probe.trials
    /\ probe' = [probe EXCEPT !.at = "return", !.result = Some(1)]
    /\ UNCHANGED program

\* __enter__ with the value connect returned: self or 1
Enter ==
    /\ probe.at = "return" /\ probe.entered = "pending"
    /\ probe' = [probe EXCEPT
                   !.entered = IF is_connection_open(Val(probe.result))
                                 THEN "self" ELSE "1"]
    /\ UNCHANGED program

NextConnect == ConnectAttempt \/ ConnectSleep \/ ConnectGiveUp \/ Enter

SpecConnect == InitConnect /\ [][NextConnect]_vars

\* ------------------------------------------------ MSPy.process_recv_data
\* the largest message code and the largest payload length that are tried
MaxCode == 5
MaxPayload == 5

\* msp_codes.MSPCodes2Str, code -> name: a table of the named codes; the
\* codes above the table are the ones it has no entry for
MSPCodes2Str ==
    <<"MSP_API_VERSION", "MSP_SONAR", "MSP_SET_RAW_RC", "MSP_DISPLAYPORT">>

\* MSPy.__dict__.get("process_" + name): the bytes each processor reads
\* with readbytes (data.pop(0) per byte), in order; None when the class has
\* no such method (process_MSP_DISPLAYPORT is commented out)
Processor(name) ==
    CASE name = "MSP_API_VERSION" -> Some(<<1, 1, 1>>)
      [] name = "MSP_SONAR" -> Some(<<4>>)
      [] name = "MSP_SET_RAW_RC" -> Some(<<>>)
      [] OTHER -> None

RECURSIVE Total(_)
Total(reads) == IF reads = <<>> THEN 0 ELSE Head(reads) + Total(Tail(reads))

\* the return value of the branch that ran the processor on n bytes, of
\* which left remain: the code returns len(data) after the processor has
\* popped what it read
Returned(n, left) == left

\* processor(self, data) on a payload of n bytes: IndexError when a read
\* finds fewer bytes than it pops; an attribute is assigned once the first
\* read has completed
RunProcessor(reads, n) ==
    IF n < Total(reads)
      THEN [ret |-> Some(-4), raised |-> "none", invoked |-> TRUE,
            modified |-> reads # <<>> /\ n >= Head(reads)]
      ELSE [ret |-> Some(Returned(n, n - Total(reads))), raised |-> "none",
            invoked |-> TRUE, modified |-> reads # <<>>]

Untouched(r) ==
    [ret |-> Some(r), raised |-> "none", invoked |-> FALSE, modified |-> FALSE]

\* lines 594-623, for the dataHandler h whose dataView holds h.data bytes
process_recv_data(h) ==
    IF h.code = 0 THEN Untouched(-1)
    ELSE IF h.crcError THEN Untouched(-2)
    ELSE IF h.packet_error THEN Untouched(-3)
    ELSE IF h.unsupported THEN Untouched(-6)
    ELSE IF h.code \notin DOMAIN MSPCodes2Str
      THEN [ret |-> None, raised |-> "KeyError", invoked |-> FALSE,
            modified |-> FALSE]
    ELSE LET processor == Processor(MSPCodes2Str[h.code])
         IN IF processor = None THEN Untouched(-5)
            ELSE IF h.data > 0 THEN RunProcessor(Val(processor), h.data)
            ELSE Untouched(0)

RecvInputs ==
    {[fn |-> "input",
      handler |-> [code |-> c, crcError |-> e, packet_error |-> k,
                   unsupported |-> u, data |-> n],
      result |-> Untouched(0)]
       : c \in 0..MaxCode, e \in BOOLEAN, k \in BOOLEAN, u \in BOOLEAN,
         n \in 0..MaxPayload}

InitRecv == InitProgram /\ probe \in RecvInputs

\* self.process_recv_data(dataHandler) applied to the drawn handler
ApplyProcessRecvData ==
    /\ probe.fn = "input"
    /\ probe' = [probe EXCEPT !.fn = "process_recv_data",
                              !.result = process_recv_data(probe.handler)]
    /\ UNCHANGED program

NextRecv == ApplyProcessRecvData

SpecRecv == InitRecv /\ [][NextRecv]_vars

\* --------------------------------- MSPy.fast_read_*: two calling threads
\* Two threads share one MSPy object; one calls fast_read_imu, the other
\* fast_read_attitude.  A caller is named by the code it requests.  The
\* pacing sleeps of send_RAW_msg and receive_raw_msg change timing only
\* and are left to the interleaving.
MaxCalls == 2

Callers == {"MSP_RAW_IMU", "MSP_ATTITUDE"}

HeaderLength == 6
ImuLength == 18
AttitudeLength == 6

data_length(c) == IF c = "MSP_RAW_IMU" THEN ImuLength ELSE AttitudeLength

\* the reply frame of a request, every byte tagged with the request it
\* answers: $ + M + < + data_length + msg_code + data + msg_crc
Frame(c) == [i \in 1..(HeaderLength + data_length(c)) |-> c]

Unlocked == "free"

InitMSP ==
    /\ InitProgram
    /\ probe = [pc         |-> [c \in Callers |-> "call"],
                write_lock |-> Unlocked,
                read_lock  |-> Unlocked,
                tx         |-> <<>>,
                rx         |-> <<>>,
                msg        |-> [c \in Callers |-> <<>>],
                calls      |-> [c \in Callers |-> 0]]

\* send_RAW_msg: with self.port_write_lock
send_RAW_msg_Lock(c) ==
    /\ probe.pc[c] = "call"
    /\ probe.write_lock = Unlocked
    /\ probe' = [probe EXCEPT !.pc[c] = "write", !.write_lock = c]
    /\ UNCHANGED program

\* send_RAW_msg: res = self.write(bufView); return res releases the lock
send_RAW_msg(c) ==
    /\ probe.pc[c] = "write"
    /\ probe' = [probe EXCEPT !.pc[c] = "sent", !.write_lock = Unlocked,
                              !.tx = Append(@, c)]
    /\ UNCHANGED program

\* receive_raw_msg: with self.port_read_lock
receive_raw_msg_Lock(c) ==
    /\ probe.pc[c] = "sent"
    /\ probe.read_lock = Unlocked
    /\ probe' = [probe EXCEPT !.pc[c] = "read", !.read_lock = c]
    /\ UNCHANGED program

\* msp_ctrl.receive_raw_msg(self.read, ..., size, timeout): the next size
\* bytes of the port, whoever they answer; the caller decodes them
receive_raw_msg(c) ==
    /\ probe.pc[c] = "read"
    /\ Len(probe.rx) >= HeaderLength + data_length(c)
    /\ probe' = [probe EXCEPT
           !.pc[c] = "decoded", !.read_lock = Unlocked,
           !.msg[c] = SubSeq(probe.rx, 1, HeaderLength + data_length(c)),
           !.rx = SubSeq(@, HeaderLength + data_length(c) + 1, Len(@))]
    /\ UNCHANGED program

\* the flight controller answers the requests in the order written
FlightControllerReply ==
    /\ probe.tx # <<>>
    /\ probe' = [probe EXCEPT !.tx = Tail(@),
                              !.rx = @ \o Frame(Head(probe.tx))]
    /\ UNCHANGED program

\* the thread calls its fast_read_* again
CallAgain(c) ==
    /\ probe.pc[c] = "decoded"
    /\ probe.calls[c] + 1 < MaxCalls
    /\ probe' = [probe EXCEPT !.pc[c] = "call", !.calls[c] = @ + 1]
    /\ UNCHANGED program

fast_read_imu ==
    \/ send_RAW_msg_Lock("MSP_RAW_IMU")
    \/ send_RAW_msg("MSP_RAW_IMU")
    \/ receive_raw_msg_Lock("MSP_RAW_IMU")
    \/ receive_raw_msg("MSP_RAW_IMU")
    \/ CallAgain("MSP_RAW_IMU")

fast_read_attitude ==
    \/ send_RAW_msg_Lock("MSP_ATTITUDE")
    \/ send_RAW_msg("MSP_ATTITUDE")
    \/ receive_raw_msg_Lock("MSP_ATTITUDE")
    \/ receive_raw_msg("MSP_ATTITUDE")
    \/ CallAgain("MSP_ATTITUDE")

NextMSP == fast_read_imu \/ fast_read_attitude \/ FlightControllerReply

SpecMSP == InitMSP /\ [][NextMSP]_vars

\* ================================================================== claims
Sign(n) == IF n < 0 THEN -1 ELSE IF n > 0 THEN 1 ELSE 0

\* C1: the outbound command channel never holds more than one command that
\* the joystick loop has not received yet.
C1_AtMostOnePending == pending <= 1

\* a command was computed while the previous one was still unread, and was
\* withheld
C1_Withheld ==
    pending = 1 /\ outcome = "complete" /\ value_available /\ ~published

\* C2 as stated: every published command has |throttle| <= 150,
\* |roll| <= 100 and |pitch| <= 150, in every phase.
C2_AllAxesBounded ==
    published =>
        /\ Abs(CMDS.throttle) <= ABS_MAX_VALUE_THROTTLE * Milli
        /\ Abs(CMDS.roll) <= ABS_MAX_VALUE_ROLL * Milli
        /\ Abs(CMDS.pitch) <= ABS_MAX_VALUE_PITCH * Milli

\* the hover feed-forward term of line 207
FeedForward == Val(cancel_gravity_value) * Sec(imu.roll) * Sec(imu.pitch)

\* C2 amended: every published command has |roll| <= 100 and |pitch| <= 150;
\* ABS_MAX_VALUE_THROTTLE bounds only the controller's part of the throttle:
\* in a command published in HOLD the throttle differs from the
\* tilt-compensated feed-forward term by at most 150.
C2_ControllerPartBounded ==
    published =>
        /\ Abs(CMDS.roll) <= ABS_MAX_VALUE_ROLL * Milli
        /\ Abs(CMDS.pitch) <= ABS_MAX_VALUE_PITCH * Milli
        /\ (~TAKEOFF /\ ~LANDING) =>
              Abs(CMDS.throttle - FeedForward) <= ABS_MAX_VALUE_THROTTLE * Milli

\* a HOLD command whose controller output was saturated and whose throttle
\* is above 150
C2_SaturatedAboveLimit ==
    /\ published /\ ~TAKEOFF /\ ~LANDING
    /\ Val(next_throttle) > ABS_MAX_VALUE_THROTTLE * Milli
    /\ CMDS.throttle > ABS_MAX_VALUE_THROTTLE * Milli

\* C3: for every output o and positive limit l, value_limit and the inline
\* clamp return c with |c| <= l, c = o when |o| < l, and the sign of o when
\* |o| >= l.
C3_Saturation ==
    probe.fn \in {"value_limit", "axis_limit"} =>
        LET o == probe.output
            l == probe.limit
            c == probe.result
        IN /\ Abs(c) <= l
           /\ Abs(o) < l => c = o
           /\ Abs(o) >= l => Sign(c) = Sign(o)

\* the inline clamp has cut a negative output to -l
C3_NegativeCut ==
    /\ probe.fn = "axis_limit"
    /\ probe.output < -probe.limit
    /\ probe.result = -probe.limit

\* the fraction the latest takeoff tick has applied
LastFraction ==
    InitTAKEOFF_LIST[Len(InitTAKEOFF_LIST) - Len(TAKEOFF_LIST)]

\* a takeoff tick that follows another one: it pops the next fraction
NextTakeoffTick ==
    /\ TAKEOFF /\ Bound(cancel_gravity_value)
    /\ Len(TAKEOFF_LIST') < Len(TAKEOFF_LIST)

\* C4 as stated: whatever IMU samples and battery voltages arrive, the
\* throttle of a TAKEOFF tick is never below the throttle of the TAKEOFF tick
\* before it.
C4_ThrottleNonDecreasing ==
    [][NextTakeoffTick =>
         Val(cancel_gravity_value') >= Val(cancel_gravity_value)]_vars

\* C4 amended: the throttle of a TAKEOFF tick is not below the throttle of
\* the TAKEOFF tick before it whenever the thrust constant int(1015 - 60 V)
\* in effect is non-negative and not below the one the earlier tick used;
\* a battery voltage that rises between the two ticks can lower the throttle.
C4_NonDecreasingWhileThrustHolds ==
    [][(/\ NextTakeoffTick
        /\ Val(TAKEOFF_THRUST') >= 0
        /\ Val(TAKEOFF_THRUST') * LastFraction >= Val(cancel_gravity_value))
       => Val(cancel_gravity_value') >= Val(cancel_gravity_value)]_vars

\* the third fraction of the ramp was applied with the thrust of a low battery
C4_ThirdFractionApplied ==
    /\ TAKEOFF
    /\ Len(TAKEOFF_LIST) = Len(InitTAKEOFF_LIST) - 3
    /\ cancel_gravity_value
         = Some(InitTAKEOFF_LIST[3] * TakeoffThrust(TiltedLow.volt))

\* the phase, from the flags and from whether the latest tick has re-latched
Phase ==
    IF TAKEOFF THEN "TAKEOFF"
    ELSE IF LANDING THEN "LANDING"
    ELSE IF outcome = "continue" THEN "HOLD_RESET"
    ELSE "HOLD"

StatedEdges ==
    { <<"TAKEOFF", "HOLD">>, <<"HOLD", "HOLD_RESET">>,
      <<"HOLD_RESET", "HOLD">>, <<"HOLD", "LANDING">> }

\* C5 as stated: the phase changes only TAKEOFF -> HOLD, HOLD -> HOLD_RESET,
\* HOLD_RESET -> HOLD and HOLD -> LANDING, and a tick that re-latches is never
\* a tick of the TAKEOFF or LANDING phase.
C5_StatedPhaseMachine ==
    [][/\ Phase' = Phase \/ <<Phase, Phase'>> \in StatedEdges
       /\ outcome' = "continue" => Phase' = "HOLD_RESET"]_vars

\* C5 amended: the phase changes only TAKEOFF -> HOLD, TAKEOFF -> LANDING
\* (a False mode signal consumed before the ramp ended), HOLD -> HOLD_RESET,
\* HOLD_RESET -> HOLD, HOLD -> LANDING and HOLD_RESET -> LANDING; TAKEOFF is
\* never re-entered and LANDING never left. The re-latch also executes in
\* TAKEOFF and in LANDING, where it leaves the phase as it is.
C5_PhaseMachine ==
    [][Phase' = Phase
       \/ <<Phase, Phase'>> \in
            StatedEdges \cup { <<"TAKEOFF", "LANDING">>,
                               <<"HOLD_RESET", "LANDING">> }]_vars

\* a tick has re-latched while landing
C5_RelatchWhileLanding == ~TAKEOFF /\ LANDING /\ outcome = "continue"

\* C6: once TAKEOFF is cleared it stays cleared, and the number of remaining
\* profile fractions never increases.
C6_TakeoffOnlyOnce ==
    [][/\ ~TAKEOFF => ~TAKEOFF'
       /\ Len(TAKEOFF_LIST') <= Len(TAKEOFF_LIST)]_vars

\* a re-latch after the ramp has ended
C6_RelatchAfterTakeoff ==
    ~TAKEOFF /\ TAKEOFF_LIST = <<>> /\ outcome = "continue"

\* the tick that finds the profile exhausted while in TAKEOFF
ExhaustionTick == TAKEOFF /\ ~TAKEOFF'

\* the throttle the throttle controller produces: the saturated controller
\* output plus the feed-forward term
ControllerThrottle ==
    value_limit(Val(next_throttle), ABS_MAX_VALUE_THROTTLE * Milli) + FeedForward

\* C7 as stated: in the tick that finds the profile exhausted the reference
\* altitude is TAKEOFF_ALTITUDE, the velocity fed back is zero, the phase
\* becomes HOLD and the throttle of the tick is the throttle controller's.
C7_StatedExhaustion ==
    [][ExhaustionTick =>
         /\ init_altitude' = Some(TAKEOFF_ALTITUDE * Milli)
         /\ velocity' = Some(0)
         /\ Phase' = "HOLD"
         /\ CMDS'.throttle = ControllerThrottle']_vars

\* C7 amended: in the tick that finds the profile exhausted the reference
\* altitude is TAKEOFF_ALTITUDE and the velocity fed back is zero; when no
\* False mode signal was consumed during TAKEOFF the phase becomes HOLD and
\* the throttle of the tick is the throttle controller's; when one was, the
\* phase becomes LANDING in that tick and its throttle is the landing
\* throttle cancel_gravity_value - 50.
C7_Exhaustion ==
    [][ExhaustionTick =>
         /\ init_altitude' = Some(TAKEOFF_ALTITUDE * Milli)
         /\ velocity' = Some(0)
         /\ IF LANDING'
              THEN /\ Phase' = "LANDING"
                   /\ CMDS'.throttle =
                        Val(cancel_gravity_value') - LANDING_DECREMENT * Milli
              ELSE /\ Phase' = "HOLD"
                   /\ CMDS'.throttle = ControllerThrottle']_vars

\* the first tick after the ramp: nothing was fed back but the zero velocity
\* although the estimator holds a descent rate
C7_ZeroVelocityFedBack ==
    /\ ~TAKEOFF /\ ~LANDING
    /\ init_altitude = Some(TAKEOFF_ALTITUDE * Milli)
    /\ velocity = Some(0)
    /\ tof_x[2] # 0
    /\ prev_altitude_sensor = altitude_corrected
    /\ CMDS.throttle = ControllerThrottle

\* C8: once a False mode signal has been consumed with TAKEOFF cleared, the
\* landing state is never left, every command published from then on has the
\* throttle cancel_gravity_value - 50, and cancel_gravity_value no longer
\* changes once TAKEOFF is cleared.
C8_LandingThrottleLatched ==
    [][/\ (~TAKEOFF /\ LANDING) => (~TAKEOFF' /\ LANDING')
       /\ (~TAKEOFF' /\ LANDING' /\ published') =>
             CMDS'.throttle =
                 Val(cancel_gravity_value') - LANDING_DECREMENT * Milli
       /\ ~TAKEOFF => cancel_gravity_value' = cancel_gravity_value]_vars

\* a landing command published after a later True signal has latched a new
\* reference altitude
C8_LandingAfterRelatch ==
    /\ ~TAKEOFF /\ LANDING /\ published
    /\ Truthy(init_altitude)
    /\ Bound(next_throttle)
    /\ CMDS.throttle # ControllerThrottle

\* C9: a tick that raises publishes no command, and the loop goes on with
\* the next tick.
C9_FaultedTickSendsNothing ==
    outcome = "fault" => (~published /\ ENABLED Tick)

\* a tick has raised with a command computed and the outbound channel free
C9_RaisedWithCommandReady ==
    outcome = "fault" /\ value_available /\ pending = 0 /\ ~TAKEOFF

\* C10 as stated: a tick in which no inbound channel delivers a message
\* completes without a fault, from the first tick on.
C10_SilentTickCompletes == silent => outcome # "fault"

\* C11: in the vertical predict step F[0,1] equals dt, and is not zero, for
\* every elapsed time 0 < dt < 3 s, and is 0 for every dt > 3 s.
C11_CouplingByElapsedTime ==
    Bound(dt) =>
        /\ (0 < Val(dt) /\ Val(dt) < DT_LIMIT) =>
               (tof_F01 = Val(dt) /\ tof_F01 # 0)
        /\ Val(dt) > DT_LIMIT => tof_F01 = 0

\* a predict step with dt = 3.001 s has zeroed the coupling
C11_ZeroedAbove == dt = Some(DT_LIMIT + 1) /\ tof_F01 = 0 /\ tof_B0 = 0

\* C12 as stated: whenever |dt| >= 3 s, forward or reversed, the entries
\* F[0,1], B[0] and B[1] are zero for that tick.
C12_GapZeroesAllEntries ==
    (Bound(dt) /\ Abs(Val(dt)) >= DT_LIMIT) =>
        (tof_F01 = 0 /\ tof_B0 = 0 /\ tof_B1 = 0)

\* C13 as stated: truncate cuts its input toward zero to two decimal digits
\* (truncate(-1.239) = -1.23, truncate(1.239) = 1.23) and is idempotent:
\* truncate(truncate(x)) = truncate(x).
C13_TruncatesAndIdempotent ==
    /\ probe.fn \in {"truncate", "truncate twice"} =>
           probe.result = TruncDiv(probe.data, 10) * 10
    /\ probe.fn = "truncate twice" => probe.again = probe.result

\* truncate(-1.239) = -1.23, the case the spec names
C13_NegativeExample ==
    probe.fn = "truncate" /\ probe.data = -1239 /\ probe.result = -1230

\* C14 as stated: when a flow sample (dx, dy) is consumed at altitude
\* estimate a, the y measurement channel receives dx * (-a) and the x channel
\* dy * (-a); for (1.0, 0.0) at a = -2.0 the y channel receives 2.0.
C14_FlowAxesSwapped ==
    probe.fn = "update" =>
        /\ probe.z[ChannelOf(4)] =
               TruncDiv(probe.sample[1] * (0 - probe.altitude), Milli)
        /\ probe.z[ChannelOf(3)] =
               TruncDiv(probe.sample[2] * (0 - probe.altitude), Milli)

\* the sample (1.0, 0.0) at altitude -2.0: the x channel has received 2.0
C14_FirstAxisOnX ==
    /\ probe.fn = "update"
    /\ probe.sample = <<1000, 0>> /\ probe.altitude = -2000
    /\ probe.z[ChannelOf(3)] = 2000 /\ probe.z[ChannelOf(4)] = 0

C15_ThrottleAboveFeedForward ==
    (/\ published /\ ~TAKEOFF /\ ~LANDING
     /\ init_altitude = Some(TAKEOFF_ALTITUDE * Milli)
     /\ altitude = Some(900) /\ velocity = Some(0)
     /\ imu.roll = 0 /\ imu.pitch = 0)
    => CMDS.throttle > Val(cancel_gravity_value)

\* such a command, published after the integral has grown
C15_PublishedWithIntegral ==
    /\ published /\ ~TAKEOFF /\ ~LANDING
    /\ init_altitude = Some(TAKEOFF_ALTITUDE * Milli)
    /\ altitude = Some(900) /\ velocity = Some(0)
    /\ throttle_pd > 200
    /\ CMDS.throttle > Val(cancel_gravity_value)

\* a step of the control loop (the joystick loop's Receive lowers pending)
LoopStep == pending' >= pending

\* C17 as stated: a True mode message consumed when the message consumed
\* before it was True too, and the re-latch that one asked for is done, does
\* not re-latch again.
C17_OnlyRisingEdge ==
    [][(/\ LoopStep
        /\ mode_read' = Some(TRUE) /\ last_mode' = Some(TRUE)
        /\ ~postition_hold)
       => outcome' # "continue"]_vars

\* C17 amended: a re-latch is triggered by a consumed True mode message, not
\* by an edge: the tick that consumes a True message re-latches whenever a
\* non-zero range reading has been received, also when the message before it
\* was True; a tick re-latches only if it consumes a True message or a True
\* request is still pending.
C17_EveryTrueRelatches ==
    [][LoopStep =>
         /\ (mode_read' = Some(TRUE) /\ Truthy(altitude_sensor)) =>
               (outcome' = "continue" /\ init_altitude' = altitude_sensor)
         /\ outcome' = "continue" =>
               (mode_read' = Some(TRUE) \/ postition_hold)]_vars

\* a second True in a row has re-latched in HOLD
C17_RelatchedAgain ==
    /\ ~TAKEOFF /\ outcome = "continue"
    /\ mode_read = Some(TRUE) /\ last_mode = Some(TRUE)

\* C18 as stated: a False mode message consumed when no True message was
\* consumed before it (the first message, or one after another False)
\* neither sets the landing state nor clears the reference altitude.
C18_OnlyFallingEdge ==
    [][(/\ LoopStep
        /\ mode_read' = Some(FALSE) /\ last_mode' # Some(TRUE))
       => (LANDING' = LANDING /\ init_altitude' = init_altitude)]_vars

\* the first mode message was False, and the landing state is set
C18_FirstFalseLands ==
    /\ mode_read = Some(FALSE) /\ last_mode = None
    /\ LANDING /\ init_altitude = None

\* what the tick that re-latches does: the estimator state becomes
\* [latest raw range reading, 0], the reference altitude and the retained
\* previous altitude become that reading, the hold request is cleared and
\* nothing is published
RelatchEffects ==
    /\ init_altitude' = altitude_sensor
    /\ prev_altitude_sensor' = altitude_sensor
    /\ altitude_sensor' = altitude_sensor
    /\ Truthy(altitude_sensor)
    /\ tof_x' = <<Val(altitude_sensor), 0>>
    /\ ~postition_hold'
    /\ ~published' /\ pending' = pending

\* the tick after a re-latch has gone through the vertical block: it has
\* taken dt and the predicted altitude, which is the latched reading
PipelineRan ==
    /\ outcome' \in {"complete", "fault"}
    /\ Bound(dt')
    /\ altitude' = init_altitude

\* C19 as stated: the tick that re-latches has the effects above, and the
\* next tick runs the normal estimate-and-control pipeline.
C19_RelatchThenPipeline ==
    [][LoopStep =>
         /\ outcome' = "continue" => RelatchEffects
         /\ outcome = "continue" => PipelineRan]_vars

\* C19 amended: the tick that re-latches has the effects above; the next
\* tick runs the normal pipeline unless it consumes a mode message (a True
\* message re-latches again, a False message clears the reference altitude
\* so that the vertical block is skipped).
C19_RelatchThenPipelineUnlessMode ==
    [][LoopStep =>
         /\ outcome' = "continue" => RelatchEffects
         /\ (outcome = "continue" /\ mode_read' = None) => PipelineRan]_vars

\* a re-latch in HOLD has hard-set an estimator that held a descent rate
C19_EstimatorHardSet ==
    /\ ~TAKEOFF /\ outcome = "continue"
    /\ tof_x = <<900, 0>> /\ init_altitude = Some(900)
    /\ velocity = Some(-5000)

\* the position errors of lines 262-263 for the horizontal estimate x
PositionErrors(x) ==
    <<TruncDiv(truncate(0 - x[2]), ROLL_DIVISOR),
      TruncDiv(truncate(0 - x[1]), PITCH_DIVISOR)>>

\* C20 as stated: in the first HOLD tick after a re-latch, with no new flow
\* sample, the position errors fed to the roll and pitch controllers are
\* zero whatever the horizontal estimate was before the re-latch.
C20_HorizontalRelatched ==
    [][(/\ LoopStep
        /\ outcome = "continue" /\ outcome' = "complete"
        /\ ~TAKEOFF' /\ silent')
       => PositionErrors(KFXY_x') = <<0, 0>>]_vars

\* a re-latch in HOLD has left a non-zero horizontal estimate in place
C20_EstimateKeptByRelatch ==
    /\ ~TAKEOFF /\ outcome = "continue"
    /\ KFXY_x = DriftB
    /\ PositionErrors(KFXY_x) # <<0, 0>>

\* C21: connect(trials = n) makes at most n attempts; it returns 0
\* immediately after the first attempt that completes, returns 1 after n
\* attempts that each raised SerialException or FileNotFoundError, never
\* returns 0 when every attempt failed; __enter__ returns the MSPy object
\* exactly when connect returned 0.
C21_Connect ==
    LET a == probe.attempts
    IN /\ Len(a) <= probe.trials
       /\ \A k \in 1..Len(a) : a[k] = "ok" => (k = Len(a) /\ probe.result = Some(0))
       /\ probe.result = Some(0) => (Len(a) > 0 /\ a[Len(a)] = "ok")
       /\ probe.result = Some(1) =>
             (Len(a) = probe.trials /\ \A k \in 1..Len(a) : a[k] \in Caught)
       /\ probe.entered # "pending" =>
             (probe.entered = "self" <=> probe.result = Some(0))

\* the third attempt completed after two caught exceptions and __enter__
\* returned the object
C21_OpenedOnThirdAttempt ==
    /\ probe.fn = "connect" /\ Len(probe.attempts) = 3
    /\ probe.attempts[1] \in Caught /\ probe.attempts[3] = "ok"
    /\ probe.result = Some(0) /\ probe.entered = "self"

\* the handler is valid and supported
ValidSupported(h) ==
    h.code # 0 /\ ~h.crcError /\ ~h.packet_error /\ ~h.unsupported

\* a processor exists for the code
HasProcessor(c) ==
    c \in DOMAIN MSPCodes2Str /\ Processor(MSPCodes2Str[c]) # None

\* C22 as stated: when the message is valid, supported and has a known
\* processor, process_recv_data returns the number of payload bytes of the
\* message as received, and returns 0 only when the message carried no data.
C22_ReturnsPayloadLength ==
    (/\ probe.fn = "process_recv_data"
     /\ ValidSupported(probe.handler) /\ HasProcessor(probe.handler.code))
    => /\ probe.result.ret = Some(probe.handler.data)
       /\ probe.result.ret = Some(0) => probe.handler.data = 0

\* a valid MSP_SONAR message of four bytes was processed and 0 was returned
C22_ZeroForFourBytes ==
    /\ probe.fn = "process_recv_data"
    /\ ValidSupported(probe.handler) /\ HasProcessor(probe.handler.code)
    /\ MSPCodes2Str[probe.handler.code] = "MSP_SONAR"
    /\ probe.handler.data = 4
    /\ probe.result.invoked /\ probe.result.modified
    /\ probe.result.ret = Some(0)

\* the error value the stated precedence gives, None when none applies
StatedError(h) ==
    IF h.code = 0 THEN Some(-1)
    ELSE IF h.crcError THEN Some(-2)
    ELSE IF h.packet_error THEN Some(-3)
    ELSE IF h.unsupported THEN Some(-6)
    ELSE IF ~HasProcessor(h.code) THEN Some(-5)
    ELSE None

\* C23 as stated: errors are negative return values with the precedence
\* -1 (code 0), -2 (crcError), -3 (packet_error), -6 (unsupported), -5 (no
\* processor for the code); in each case no processor is invoked and no
\* attribute is modified.
C23_ErrorPrecedence ==
    (probe.fn = "process_recv_data" /\ StatedError(probe.handler) # None)
    => /\ probe.result.ret = StatedError(probe.handler)
       /\ ~probe.result.invoked /\ ~probe.result.modified

\* a valid, supported message whose code the table has no name for left
\* process_recv_data with KeyError
C23_KeyErrorForUnlistedCode ==
    /\ probe.fn = "process_recv_data"
    /\ ValidSupported(probe.handler)
    /\ probe.handler.code \notin DOMAIN MSPCodes2Str
    /\ probe.result.raised = "KeyError" /\ probe.result.ret = None

\* the outputs of the roll and pitch controllers of lines 266-267 for the
\* horizontal estimate x and a zero integral
AxisOutputs(x) ==
    <<PIDcalc(PY_GAIN, IY_GAIN, DY_GAIN, 0, PositionErrors(x)[1], -truncate(x[4])),
      PIDcalc(PX_GAIN, IX_GAIN, DX_GAIN, 0, PositionErrors(x)[2], -truncate(x[3]))>>

\* the value a limit leaves of an output: the output within the limit, the
\* limit with the sign of the output beyond it
SignKept(out, limit) ==
    IF Abs(out) <= limit THEN out ELSE Sign(out) * limit

\* C24: in every published command roll lies within
\* [-ABS_MAX_VALUE_ROLL, ABS_MAX_VALUE_ROLL] and pitch within
\* [-ABS_MAX_VALUE_PITCH, ABS_MAX_VALUE_PITCH], and a clamped roll or pitch
\* has the sign of the controller output, not of the error.
C24_RollPitchBounded ==
    published =>
        /\ Abs(CMDS.roll) <= ABS_MAX_VALUE_ROLL * Milli
        /\ Abs(CMDS.pitch) <= ABS_MAX_VALUE_PITCH * Milli
        /\ TAKEOFF => (CMDS.roll = 0 /\ CMDS.pitch = 0)
        /\ ~TAKEOFF =>
             /\ CMDS.roll = SignKept(AxisOutputs(KFXY_x)[1],
                                     ABS_MAX_VALUE_ROLL * Milli)
             /\ CMDS.pitch = SignKept(AxisOutputs(KFXY_x)[2],
                                      ABS_MAX_VALUE_PITCH * Milli)

\* a published roll was clamped to the positive limit while the roll error
\* was negative
C24_ClampedAgainstError ==
    /\ published /\ ~TAKEOFF
    /\ AxisOutputs(KFXY_x)[1] > ABS_MAX_VALUE_ROLL * Milli
    /\ PositionErrors(KFXY_x)[1] < 0
    /\ CMDS.roll = ABS_MAX_VALUE_ROLL * Milli

\* C25: once TAKEOFF has completed, cancel_gravity_value is never changed by
\* a later tick, whatever battery voltages and mode signals arrive; it
\* equals the throttle commanded on the last TAKEOFF tick that consumed a
\* profile fraction. Stated per step: a tick that consumes a fraction sets
\* it to the throttle it commands, no other step changes it, and no
\* fraction is consumed once TAKEOFF is false.
C25_FeedForwardFrozen ==
    [][/\ Len(TAKEOFF_LIST') # Len(TAKEOFF_LIST) =>
            /\ TAKEOFF /\ TAKEOFF'
            /\ Len(TAKEOFF_LIST') = Len(TAKEOFF_LIST) - 1
            /\ cancel_gravity_value' = Some(CMDS'.throttle)
       /\ Len(TAKEOFF_LIST') = Len(TAKEOFF_LIST) =>
            cancel_gravity_value' = cancel_gravity_value
       /\ ~TAKEOFF => ~TAKEOFF']_vars

\* after TAKEOFF a sample with the low battery voltage was consumed, and
\* the feed-forward value is still the last fraction at the voltage of
\* the takeoff
C25_KeptAfterVoltageDrop ==
    /\ ~TAKEOFF /\ outcome = "complete"
    /\ imu.roll = TiltedLow.roll
    /\ TAKEOFF_THRUST = Some(TakeoffThrust(Level.volt))
    /\ cancel_gravity_value =
         Some(InitTAKEOFF_LIST[ProfileLen] * TakeoffThrust(Level.volt))

\* C26: while the phase is TAKEOFF the horizontal estimator is inactive: no
\* tick predicts or updates its state, no flow sample is consumed, the roll
\* and pitch controllers are not invoked, and every command published
\* during TAKEOFF has roll = 0 and pitch = 0.
C26_HorizontalIdleInTakeoff ==
    TAKEOFF =>
        /\ KFXY_x = <<0, 0, 0, 0>> /\ KFXY_z = <<0, 0>>
        /\ ~oft
        /\ CMDS.roll = 0 /\ CMDS.pitch = 0

\* a takeoff tick paced the flow producer and published a command of the
\* ramp, and nothing of the horizontal block has run
C26_TakeoffCommandPublished ==
    /\ TAKEOFF /\ published /\ outcome = "complete"
    /\ Len(TAKEOFF_LIST) < ProfileLen
    /\ tokens.flow = 1 /\ ~oft
    /\ CMDS.throttle > 0 /\ CMDS.roll = 0 /\ CMDS.pitch = 0

Placeholder == [throttle |-> IDLE_THROTTLE * Milli, roll |-> 0, pitch |-> 0]

\* C28 as stated: a command is sent in a tick only if that same tick
\* computed it (during TAKEOFF: consumed a profile fraction), so the
\* placeholder command (throttle -30, roll 0, pitch 0) is never published.
C28_SentOnlyIfComputed ==
    [][(LoopStep /\ published') =>
         /\ TAKEOFF' => Len(TAKEOFF_LIST') < Len(TAKEOFF_LIST)
         /\ CMDS' # Placeholder]_vars

\* the placeholder was published by a TAKEOFF tick that skipped the
\* vertical block after a False mode message cleared the reference altitude
C28_PlaceholderPublished ==
    /\ TAKEOFF /\ LANDING /\ init_altitude = None
    /\ published /\ pending = 1
    /\ CMDS = Placeholder

\* C29 as stated: for every value of the latest raw range reading,
\* including exactly 0, a True mode signal consumed when a range sample has
\* already been received performs the hold re-latch in that tick and
\* establishes that reading as the reference altitude.
C29_RelatchForEveryReading ==
    [][(LoopStep /\ mode_read' = Some(TRUE) /\ Bound(altitude_sensor))
       => (outcome' = "continue" /\ init_altitude' = altitude_sensor)]_vars

\* a True mode signal was consumed while the latest reading was 0: no
\* re-latch was done and the request is still pending
C29_ZeroReadingNotLatched ==
    /\ mode_read = Some(TRUE) /\ altitude_sensor = Some(0)
    /\ outcome # "continue" /\ postition_hold
    /\ init_altitude # altitude_sensor

\* what a tick that goes through neither the vertical block nor the range
\* update leaves unchanged: the vertical estimate, the elapsed time and the
\* throttle controller's output and integral
VerticalIdle ==
    /\ tof_x' = tof_x /\ dt' = dt
    /\ next_throttle' = next_throttle /\ throttle_pd' = throttle_pd

\* C30 as stated: once LANDING has been entered, in no later tick is the
\* throttle controller invoked or the vertical estimator predicted or
\* updated, for every later sequence of mode signals and range samples.
C30_ControlStaysDisabled ==
    [][(LoopStep /\ LANDING /\ outcome' # "continue") => VerticalIdle]_vars

\* C30 amended: the tick that consumes False enters LANDING, clears the
\* reference altitude and runs no vertical estimation or throttle control;
\* LANDING is never left; while the reference altitude is cleared no tick
\* runs them, and only a re-latch (a later True signal with a range reading)
\* establishes a reference again, after which they run again; whatever the
\* controller then computes, every command published once TAKEOFF is
\* complete carries the landing throttle cancel_gravity_value - 50.
C30_DisabledUntilRelatch ==
    [][LoopStep =>
         /\ mode_read' = Some(FALSE) =>
               (LANDING' /\ init_altitude' = None /\ VerticalIdle)
         /\ LANDING => LANDING'
         /\ (LANDING /\ ~Truthy(init_altitude) /\ outcome' # "continue") =>
               (VerticalIdle /\ init_altitude' = init_altitude)
         /\ (LANDING' /\ ~TAKEOFF' /\ published') =>
               CMDS'.throttle =
                   Val(cancel_gravity_value') - LANDING_DECREMENT * Milli]_vars

\* a tick later than the one that entered LANDING went through the vertical
\* block in HOLD with a re-latched reference, and published the landing
\* throttle
C30_ControllerRanWhileLanding ==
    /\ LANDING /\ ~TAKEOFF /\ outcome = "complete"
    /\ Truthy(init_altitude) /\ Bound(next_throttle)
    /\ published
    /\ CMDS.throttle = Val(cancel_gravity_value) - LANDING_DECREMENT * Milli

\* C31 as stated: while the phase is TAKEOFF and the profile is not
\* exhausted, the profile cursor advances by exactly one fraction on every
\* tick, also before a reference altitude has been latched, before any IMU
\* sample has been received, and on ticks that consume a mode signal.
C31_AdvancesEveryTick ==
    [][(LoopStep /\ TAKEOFF /\ Len(TAKEOFF_LIST) > 0)
       => TAKEOFF_LIST' = Tail(TAKEOFF_LIST)]_vars

\* C31 amended: while the phase is TAKEOFF the cursor advances by exactly
\* one fraction on the ticks that reach the takeoff step with a thrust value
\* (a reference altitude is latched, the tick is not a re-latch tick, an IMU
\* sample has been received), and does not move on any other tick.
C31_AdvancesWhenRampRuns ==
    [][(LoopStep /\ TAKEOFF /\ Len(TAKEOFF_LIST) > 0) =>
         IF /\ outcome' \in {"complete", "fault"}
            /\ Truthy(init_altitude') /\ Bound(TAKEOFF_THRUST')
           THEN TAKEOFF_LIST' = Tail(TAKEOFF_LIST)
           ELSE TAKEOFF_LIST' = TAKEOFF_LIST]_vars

\* a tick with a latched reference raised before any IMU sample was
\* received, and the cursor has not moved
C31_CursorHeldWithoutImu ==
    /\ TAKEOFF /\ outcome = "fault"
    /\ Truthy(init_altitude) /\ ~Bound(TAKEOFF_THRUST)
    /\ TAKEOFF_LIST = InitTAKEOFF_LIST

\* C32 as stated: within one tick the data flows samples -> estimators ->
\* controllers -> command, so a range sample consumed in a tick is applied
\* to the vertical estimator before that tick's throttle is computed: the
\* altitude and velocity a completed HOLD tick fed to the throttle
\* controller are the vertical estimate the tick ends with.
C32_EstimateBeforeControl ==
    [][(/\ LoopStep /\ ~TAKEOFF
        /\ outcome' = "complete" /\ Truthy(init_altitude'))
       => (altitude' = Some(tof_x'[1]) /\ velocity' = Some(tof_x'[2]))]_vars

\* a HOLD tick fed velocity 0 to the throttle controller and then applied a
\* range sample that left the estimator with a descent rate
C32_UpdatedAfterControl ==
    /\ ~TAKEOFF /\ ~LANDING /\ outcome = "complete" /\ published
    /\ Truthy(init_altitude) /\ toft
    /\ velocity = Some(0) /\ tof_x[2] < 0

\* C33 as stated: in every tick that runs the horizontal estimator the
\* measurement noise on both channels equals 0.01 + |vertical velocity|/100,
\* so it is at least 0.01 for every vertical velocity, negative included.
C33_NoiseAtLeastFloor ==
    (~TAKEOFF /\ outcome = "complete") =>
        /\ KFXY_R(Val(velocity)) =
             TruncDiv(Milli, 100) + TruncDiv(Abs(Val(velocity)), 100)
        /\ KFXY_R(Val(velocity)) >= TruncDiv(Milli, 100)

\* a HOLD tick ran the horizontal estimator with a descent rate of 5 m/s
\* and a negative measurement noise
C33_NegativeNoise ==
    /\ ~TAKEOFF /\ outcome = "complete"
    /\ velocity = Some(-5000)
    /\ KFXY_R(Val(velocity)) < 0

\* C34 as stated: in the horizontal predict step F[0,2], F[1,3], B[2,2] and
\* B[3,3] are all derived from the elapsed time since the latest IMU
\* sample, and all four are zero whenever the magnitude of that elapsed
\* time is >= 3 s, positive or negative.
C34_AllFromImuTime ==
    probe.fn = "horizontal" =>
        LET n == probe.entries
            d == IF Abs(probe.dt_IMU) >= DT_LIMIT THEN 0 ELSE probe.dt_IMU
        IN n.F02 = d /\ n.F13 = d /\ n.B22 = d /\ n.B33 = d

\* the IMU sample is 3 s ahead of the tick and the flow sample 10 ms
\* behind: the coupling entries carry the flow time and the control
\* entries the reversed IMU time
C34_FlowTimeAndReversedGap ==
    /\ probe.fn = "horizontal"
    /\ probe.dt_OF = 10 /\ probe.dt_IMU = -DT_LIMIT
    /\ probe.entries.F02 = 10 /\ probe.entries.F13 = 10
    /\ probe.entries.B22 = -DT_LIMIT /\ probe.entries.B33 = -DT_LIMIT

\* C35 as stated: at every range update the previous value in the velocity
\* component of the measurement is the corrected altitude of the
\* immediately preceding range update, in TAKEOFF as well as in HOLD: a
\* tick whose update replaces the corrected altitude of an earlier update
\* has used that earlier corrected altitude as the previous value.
C35_PreviousIsLastCorrected ==
    [][(/\ LoopStep /\ toft /\ outcome' = "complete"
        /\ altitude_corrected' # altitude_corrected)
       => prev_altitude_sensor' = altitude_corrected]_vars

\* during TAKEOFF a range update made under tilt gave a corrected altitude
\* of 0.45 m, and the retained previous value is still the raw reading of
\* the re-latch
C35_PreviousKeptInTakeoff ==
    /\ TAKEOFF /\ toft /\ outcome = "complete"
    /\ Len(TAKEOFF_LIST) < ProfileLen
    /\ altitude_corrected = Some(TiltCorrected(900, TiltedLow))
    /\ prev_altitude_sensor = Some(900)

\* the results of one iteration from the current state with the stored
\* acceleration replaced by a and that of the IMU sample i by b, the
\* acceleration itself left out of the comparison
RunWith(a, b, m, i, t, f) ==
    LET s == [Cur EXCEPT !.imu.acc = a]
        j == IF i = None THEN None ELSE Some([Val(i) EXCEPT !.acc = b])
    IN {[r EXCEPT !.imu.acc = 0] : r \in Iteration(s, m, j, t, f, EnvShake)}

\* every iteration gives the same results for the accelerations of A as for
\* an acceleration of 0
SameForAll(A) ==
    \A m \in EnvShake.mode, i \in EnvShake.imu, t \in EnvShake.tof,
       f \in EnvShake.flow, a \in A, b \in A :
        Waiting(<<m, i, t, f>>) <= MaxWaiting =>
            RunWith(a, b, m, i, t, f) = RunWith(0, 0, m, i, t, f)

\* C36 as stated: the horizontal predict is always invoked with zero
\* control, so two runs fed identical inputs except for the (finite)
\* acceleration fields of their IMU samples publish identical command
\* sequences and reach identical estimator states: from every state, each
\* iteration has the same results whatever finite accelerations are
\* stored and received.
C36_IndependentOfAcceleration == SameForAll(AccExps)

\* C36 amended: the same, for accelerations whose product
\* 9.81 * acc * cos(angle) * 100 stays within the range of a double; a
\* larger finite acceleration makes every HOLD tick raise before it
\* publishes.
C36_IndependentBelowOverflow ==
    /\ ~Overflows(imu.acc) => SameForAll({k \in AccExps : ~Overflows(k)})
    /\ (Overflows(imu.acc) /\ ~TAKEOFF /\ outcome # "init"
          /\ outcome # "continue" /\ mode_read = None)
         => (outcome = "fault" /\ ~published)

\* a HOLD tick published a command while an acceleration of 10 m/s^2 was
\* stored
C36_PublishedWhileShaken ==
    /\ ~TAKEOFF /\ outcome = "complete" /\ published
    /\ imu.acc = 1 /\ KFXY_x = DriftB

\* C37 as stated: a consumed True request is acted on in the tick that
\* consumed it or not at all, so no re-latch happens in a tick that
\* consumed no mode message.
C37_RelatchOnlyWhenConsumed ==
    [][(LoopStep /\ outcome' = "continue") => mode_read' = Some(TRUE)]_vars

\* C37 amended: a True request consumed while no non-zero range reading
\* exists is kept pending, and the first later tick that starts with a
\* non-zero reading re-latches without consuming a mode message, unless a
\* False consumed in between cancelled the request.
C37_PendingRequestHonouredLater ==
    [][LoopStep =>
         /\ mode_read' = None =>
              /\ outcome' = "continue" =>
                    (postition_hold /\ Truthy(altitude_sensor))
              /\ (postition_hold /\ ~Truthy(altitude_sensor)) =>
                    postition_hold'
         /\ mode_read' = Some(TRUE) =>
              /\ outcome' = "continue" => Truthy(altitude_sensor)
              /\ ~Truthy(altitude_sensor) =>
                    (postition_hold' /\ outcome' # "continue")
         /\ mode_read' = Some(FALSE) =>
              (~postition_hold' /\ outcome' # "continue")]_vars

\* a tick that consumed no mode message re-latched on a request consumed
\* by an earlier tick
C37_RelatchedWithoutMessage ==
    /\ outcome = "continue" /\ mode_read = None
    /\ last_mode = Some(TRUE)
    /\ init_altitude = altitude_sensor /\ ~postition_hold

\* C38 as stated: once a True mode signal, a non-zero range reading and an
\* IMU sample have been consumed, and no further mode signal is consumed,
\* the phase becomes HOLD at most the profile length plus one ticks after
\* the reference altitude was latched, with no faulted tick in between:
\* every such tick consumes a fraction, or ends TAKEOFF once the profile
\* is exhausted, and none of them is faulted.
C38_RampRunsUnfaulted ==
    [][(/\ LoopStep /\ mode_read' = None
        /\ TAKEOFF /\ Truthy(init_altitude) /\ Bound(TAKEOFF_THRUST)
        /\ ~postition_hold)
       => /\ IF Len(TAKEOFF_LIST) > 0
               THEN TAKEOFF' /\ TAKEOFF_LIST' = Tail(TAKEOFF_LIST)
               ELSE ~TAKEOFF'
          /\ outcome' # "fault"]_vars

\* with the reference latched and a thrust value from an IMU sample, the
\* tick that found the profile exhausted ended TAKEOFF and raised before
\* publishing, no flow sample having been consumed
C38_FaultedOnReachingHold ==
    /\ ~TAKEOFF /\ ~LANDING /\ outcome = "fault" /\ ~published
    /\ TAKEOFF_LIST = <<>> /\ Bound(TAKEOFF_THRUST)
    /\ init_altitude = Some(TAKEOFF_ALTITUDE * Milli)
    /\ ~oft /\ mode_read = None

\* C39 as stated: when two threads call fast_read_imu and
\* fast_read_attitude of one MSPy object concurrently, each caller decodes
\* the reply to its own request.
C39_EachCallerOwnReply ==
    \A c \in Callers : probe.pc[c] = "decoded" => probe.msg[c] = Frame(c)

\* with both requests written IMU first, fast_read_attitude took the read
\* lock first and decoded the head of the IMU reply; fast_read_imu then
\* decoded the rest of it followed by the ATTITUDE reply
C39_AttitudeDecodedImuReply ==
    /\ probe.pc["MSP_ATTITUDE"] = "decoded" /\ probe.pc["MSP_RAW_IMU"] = "decoded"
    /\ probe.msg["MSP_ATTITUDE"]
         = [i \in 1..(HeaderLength + AttitudeLength) |-> "MSP_RAW_IMU"]
    /\ probe.msg["MSP_RAW_IMU"]
         = [i \in 1..(ImuLength - AttitudeLength) |-> "MSP_RAW_IMU"]
             \o Frame("MSP_ATTITUDE")
    /\ probe.write_lock = Unlocked /\ probe.read_lock = Unlocked

====
